---- MODULE Spec2Model ----
(***************************************************************************)
(* Model of the CSV-to-SQLite backend.                                     *)
(*                                                                         *)
(* The coordinated server (src/unnamed/part_000) keeps two process-wide    *)
(* flags, isDatabaseInitialized and isInitializing, one in-memory sqlite   *)
(* connection and one table, orders.  loadCSVData is an async function:    *)
(* every await (stream end, runQuery callback, poll timer) is a point      *)
(* where other event-loop callbacks run, so each action below is the code  *)
(* between two awaits of one caller, executed without interruption.        *)
(*                                                                         *)
(* The engine is node-sqlite3 in its default (parallel) mode: db.all runs  *)
(* a statement and calls back, while stmt.run(values) given no callback    *)
(* only queues the insert on its prepared statement and returns.  Queued   *)
(* inserts of one statement run in order; different statements are not     *)
(* ordered with respect to each other.                                     *)
(***************************************************************************)
EXTENDS Integers, Sequences, FiniteSets, TLC

\* ------------------------------------------------------------------ bounds
NumRequests == 2       \* POST /api/init requests made (callers 1..NumRequests)
MaxBatches == 1        \* full batches of the largest file of SpecBatch
MaxWrites == 1         \* statements through POST /api/query that change the table

\* ------------------------------------------------------- program constants
batchSize == 1000

Auto == 0
Requests == 1..NumRequests
Callers == {Auto} \cup Requests

\* Load attempts are numbered in the history, one number for each caller;
\* where requests recur, the attempts past MaxLoads share the last number.
MaxLoads == NumRequests + 1
NextLoad(n) == IF n < MaxLoads THEN n + 1 ELSE MaxLoads
Queries == {"q"}

\* ------------------------------------------------------------------- files
\* A header name is the sequence of its blank-separated words; a data row
\* is the sequence of its cells.  A file with no header line has header <<>>.
NoFile == [present |-> FALSE, removed |-> FALSE, header |-> <<>>, rows |-> <<>>]
Removed == [present |-> FALSE, removed |-> TRUE, header |-> <<>>, rows |-> <<>>]
CSV(h, r) == [present |-> TRUE, removed |-> FALSE, header |-> h, rows |-> r]

ColA == <<"a">>
ColB == <<"b">>
ColUnitPrice == <<"unit", "price">>

FileEmpty == CSV(<<>>, <<>>)
FileHeaderOnly == CSV(<<ColA, ColB>>, <<>>)
FileTwo == CSV(<<ColA, ColB>>, << <<"1", "x">>, <<"2">> >>)
FileSpaced == CSV(<<ColUnitPrice>>, << <<"7">> >>)
FileDup == CSV(<<ColA, ColA>>, << <<"1", "x">> >>)

Files == {FileEmpty, FileHeaderOnly, FileTwo, FileSpaced, FileDup}

VARIABLES
  file,                   \* public/orders.csv
  isDatabaseInitialized,
  isInitializing,
  table,                  \* the orders table of the in-memory database
  stmts,                  \* prepared INSERT statements with queued runs
  pc,                     \* where each caller of /api/init or the startup check is
  loc,                    \* loadCSVData's locals of each caller
  result,                 \* what each caller was answered in the turn just taken
  qpc,                    \* where each query/schema request is
  qres,                   \* the statement of a query/schema request in the
                          \* engine, or what it was answered in this turn
  health,                 \* what GET /health was last answered
  crashed,                \* the process died of an uncaught 'error' event
  hist                    \* history: load attempts, the load that succeeded,
                          \* the load whose CREATE TABLE made the table

vars == <<file, isDatabaseInitialized, isInitializing, table, stmts, pc, loc,
          result, qpc, qres, health, crashed, hist>>

\* ------------------------------------------------------------------ engine
NoTable == [exists |-> FALSE, cols |-> <<>>, rows |-> <<>>]
NULL == "<null>"

\* inferSchema: one column per header field, all typed TEXT.
inferSchema(headerRow) ==
  [i \in 1..Len(headerRow) |-> [name |-> headerRow[i], type |-> <<"TEXT">>]]

\* columnDefs: the words of `${col.name} ${col.type}` for each column.
columnDefs(schema) ==
  [i \in 1..Len(schema) |-> schema[i].name \o schema[i].type]

\* How the engine reads one column definition of CREATE TABLE: the first
\* word is the column's name, the words after it are its declared type.
ParseColumnDef(words) == [name |-> <<Head(words)>>, type |-> Tail(words)]

ParsedColumns(defs) == [i \in 1..Len(defs) |-> ParseColumnDef(defs[i])]

\* CREATE TABLE is rejected when the table exists or two columns share a name.
CreateRejected(tbl, defs) ==
  \/ tbl.exists
  \/ \E i, j \in 1..Len(defs) : i < j /\ Head(defs[i]) = Head(defs[j])

CreateTable(defs) == [exists |-> TRUE, cols |-> ParsedColumns(defs), rows |-> <<>>]

\* PRAGMA table_info(orders): the columns, none when the table is absent.
TableInfo(tbl) == IF tbl.exists THEN tbl.cols ELSE <<>>

\* INSERT INTO orders VALUES (?, ..., ?) is rejected when the table is
\* absent or has another number of columns than values are bound.
InsertRejected(tbl, values) == ~tbl.exists \/ Len(values) # Len(tbl.cols)

\* csv-parser keys each cell by the header of the file being streamed (a
\* later column of the same name wins); the loader then picks record[header]
\* for each header of the first pass, undefined cells binding as NULL.
RecordCell(hdr, cells, name) ==
  LET idx == {j \in 1..Len(hdr) : hdr[j] = name /\ j <= Len(cells)}
  IN IF idx = {} THEN NULL
     ELSE cells[CHOOSE j \in idx : \A k \in idx : k <= j]

RowValues(headers, hdr, cells) ==
  [i \in 1..Len(headers) |-> RecordCell(hdr, cells, headers[i])]

\* batch.forEach(record => stmt.run(values)): the queued runs of one statement.
BatchRuns(headers, hdr, batch) ==
  [k \in 1..Len(batch) |-> RowValues(headers, hdr, batch[k])]

\* ------------------------------------------------------------ local state
\* at: "none" (no stream), "created" (fs.createReadStream has returned, the
\* file is not opened yet) or "open" (the file was opened and is being read).
NoStream == [hdr |-> <<>>, rows |-> <<>>, n |-> 0, at |-> "none"]

\* fs.createReadStream(filePath).pipe(csv()): the call only makes the
\* stream; the file is opened in a later turn.
CreatedStream == [NoStream EXCEPT !.at = "created"]

\* The stream has opened file f: it reads the file as it is now, also if
\* the file is taken away afterwards.
OpenStream(f) ==
  [hdr |-> f.header, rows |-> f.rows, n |-> Len(f.rows), at |-> "open"]
NoLocals == [load |-> 0, headers |-> <<>>, schema |-> <<>>, stream |-> NoStream,
             batch |-> <<>>, totalRows |-> 0, info |-> <<>>, waitFrom |-> 0]

NoResult == [kind |-> "none", status |-> 0, via |-> "none", rowCount |-> 0,
             schema |-> <<>>, err |-> "none", load |-> 0, waitFrom |-> 0]
\* result holds what a caller of loadCSVData or a POST /api/init was
\* answered in the turn just taken; an answer of an earlier turn is gone.
QuietResult == [c \in Callers |-> NoResult]

NoAnswer == [status |-> 0, success |-> FALSE, kind |-> "none", rows |-> <<>>]

\* qres holds what was answered in the turn just taken and the statement
\* of a request that is in the engine; an answer sent in an earlier turn
\* is gone.
QuietQres == [q \in Queries |-> IF qpc[q] = "running" THEN qres[q] ELSE NoAnswer]
NoLoad == [load |-> 0, owner |-> Auto, rowCount |-> 0, schema |-> <<>>, n |-> 0]

\* HTTP status of an answer; the startup check answers nobody.
Status(c, code) == IF c = Auto THEN 0 ELSE code

InfoResult(c, how, n, sch, l) ==
  [kind |-> "info", status |-> Status(c, 200), via |-> how, rowCount |-> n,
   schema |-> sch, err |-> "none", load |-> l, waitFrom |-> loc[c].waitFrom]

ErrorResult(c, how, what, l) ==
  [kind |-> "error", status |-> Status(c, 500), via |-> how, rowCount |-> 0,
   schema |-> <<>>, err |-> what, load |-> l, waitFrom |-> loc[c].waitFrom]

NotFoundResult(c) ==
  [kind |-> "notfound", status |-> Status(c, 404), via |-> "none", rowCount |-> 0,
   schema |-> <<>>, err |-> "none", load |-> 0, waitFrom |-> 0]

\* --------------------------------------------------------- loadCSVData entry
InLoad(c) == pc[c] \in {"readHeader", "dropping", "creating", "inserting"}

\* isInitializing = true and the first pass over the file is opened.
ClaimLoad(c) ==
  /\ isInitializing' = TRUE
  /\ pc' = [pc EXCEPT ![c] = "readHeader"]
  /\ loc' = [loc EXCEPT ![c] = [NoLocals EXCEPT !.load = NextLoad(hist.nLoads),
                                                !.stream = CreatedStream,
                                                !.waitFrom = loc[c].waitFrom]]
  /\ hist' = [hist EXCEPT !.nLoads = NextLoad(@),
                          !.owners = IF Len(@) < MaxLoads THEN Append(@, c)
                                     ELSE [@ EXCEPT ![MaxLoads] = c],
                          !.batches = <<>>, !.issued = <<>>]
  /\ result' = QuietResult
  /\ UNCHANGED <<isDatabaseInitialized, table, stmts>>

\* A caller that finds isInitializing set enters the polling loop.
StartPolling(c) ==
  /\ pc' = [pc EXCEPT ![c] = "polling"]
  /\ loc' = [loc EXCEPT ![c] = [NoLocals EXCEPT !.waitFrom = hist.nLoads]]
  /\ result' = QuietResult
  /\ UNCHANGED <<isDatabaseInitialized, isInitializing, table, stmts, hist>>

\* A loader without the guard: every caller starts a load at once.
EnterLoadUnguarded(c) == ClaimLoad(c)

\* The code from the call of loadCSVData to its first await.
EnterLoad(c) == IF isInitializing THEN StartPolling(c) ELSE ClaimLoad(c)

\* The load failed: the catch block resets isInitializing and rethrows; the
\* route answers 500, the startup check logs and swallows the error.
FailLoad(c, how, what) ==
  /\ isInitializing' = FALSE
  /\ result' = [QuietResult EXCEPT ![c] = ErrorResult(c, how, what, loc[c].load)]
  /\ pc' = [pc EXCEPT ![c] = "done"]
  /\ loc' = [loc EXCEPT ![c] = NoLocals]
  /\ hist' = IF loc[c].load > 0 THEN [hist EXCEPT !.lastFailed = loc[c].load] ELSE hist

\* A polling loop that hands the failure of the load it waited for to the
\* waiting caller instead of letting it load.
PollTimerSharesFailure(c) ==
  /\ ~crashed
  /\ pc[c] = "polling"
  /\ ~isInitializing
  /\ IF isDatabaseInitialized
     THEN /\ pc' = [pc EXCEPT ![c] = "pollPragma"]
          /\ UNCHANGED <<isDatabaseInitialized, isInitializing, table, stmts,
                         loc, hist>>
          /\ result' = QuietResult
     ELSE /\ result' = [QuietResult EXCEPT ![c] =
                          ErrorResult(c, "poll", "stream", hist.lastFailed)]
          /\ pc' = [pc EXCEPT ![c] = "done"]
          /\ loc' = [loc EXCEPT ![c] = NoLocals]
          /\ UNCHANGED <<isDatabaseInitialized, isInitializing, table, stmts, hist>>
  /\ UNCHANGED <<file, qpc, health, crashed>>
  /\ qres' = QuietQres

\* A polling loop whose caller loads whenever the wait is over, loaded
\* database or not.
PollTimerReloads(c) ==
  /\ ~crashed
  /\ pc[c] = "polling"
  /\ ~isInitializing
  /\ ClaimLoad(c)
  /\ UNCHANGED <<file, qpc, health, crashed>>
  /\ qres' = QuietQres

\* One turn of the 100 ms polling loop that finds isInitializing cleared:
\* a loaded database is described to the caller, otherwise the caller
\* falls through to the load.
PollTimer(c) ==
  /\ ~crashed
  /\ pc[c] = "polling"
  /\ ~isInitializing
  /\ IF isDatabaseInitialized
     THEN /\ pc' = [pc EXCEPT ![c] = "pollPragma"]
          /\ UNCHANGED <<isDatabaseInitialized, isInitializing, table, stmts,
                         loc, hist>>
          /\ result' = QuietResult
     ELSE ClaimLoad(c)
  /\ UNCHANGED <<file, qpc, health, crashed>>
  /\ qres' = QuietQres

\* PRAGMA table_info(orders) answered to a caller that waited for the load.
PollPragmaDone(c) ==
  /\ ~crashed
  /\ pc[c] = "pollPragma"
  /\ loc' = [loc EXCEPT ![c].info = TableInfo(table)]
  /\ pc' = [pc EXCEPT ![c] = "pollCount"]
  /\ UNCHANGED <<file, isDatabaseInitialized, isInitializing, table, stmts,
                 qpc, health, crashed, hist>>
  /\ result' = QuietResult
  /\ qres' = QuietQres

\* SELECT COUNT(*) answered to a caller that waited; an engine error lands
\* in loadCSVData's catch block.
PollCountDone(c) ==
  /\ ~crashed
  /\ pc[c] = "pollCount"
  /\ IF table.exists
     THEN /\ result' = [QuietResult EXCEPT ![c] =
                 InfoResult(c, "poll", Len(table.rows), loc[c].info, hist.ok.load)]
          /\ pc' = [pc EXCEPT ![c] = "done"]
          /\ loc' = [loc EXCEPT ![c] = NoLocals]
          /\ UNCHANGED <<isInitializing, hist>>
     ELSE FailLoad(c, "poll", "engine")
  /\ UNCHANGED <<file, isDatabaseInitialized, table, stmts, qpc, health,
                 crashed>>
  /\ qres' = QuietQres

\* ------------------------------------------------------------ POST /api/init
\* A route without the fast path: every POST /api/init goes on to the loader.
NeverAlreadyInitialized == FALSE

\* isDatabaseInitialized && !isInitializing
AlreadyInitialized == isDatabaseInitialized /\ ~isInitializing

InitFastPath(c) ==
  /\ pc' = [pc EXCEPT ![c] = "fastPragma"]
  /\ loc' = [loc EXCEPT ![c] = NoLocals]
  /\ result' = QuietResult
  /\ UNCHANGED <<isDatabaseInitialized, isInitializing, table, stmts, hist>>

\* A route without the fs.existsSync check: the loader is called anyway.
InitNotFoundCallsLoader(c) == EnterLoad(c)

\* !fs.existsSync(csvPath): 404 with success false, loadCSVData is not called.
InitNotFound(c) ==
  /\ result' = [QuietResult EXCEPT ![c] = NotFoundResult(c)]
  /\ pc' = [pc EXCEPT ![c] = "done"]
  /\ UNCHANGED <<isDatabaseInitialized, isInitializing, table, stmts, loc, hist>>

InitRequest(c) ==
  /\ ~crashed
  /\ c \in Requests
  /\ pc[c] = "idle"
  /\ \A d \in Requests : d < c => pc[d] # "idle"
  /\ IF AlreadyInitialized
     THEN InitFastPath(c)
     ELSE IF ~file.present THEN InitNotFound(c) ELSE EnterLoad(c)
  /\ UNCHANGED <<file, qpc, health, crashed>>
  /\ qres' = QuietQres

FastPragmaDone(c) ==
  /\ ~crashed
  /\ pc[c] = "fastPragma"
  /\ loc' = [loc EXCEPT ![c].info = TableInfo(table)]
  /\ pc' = [pc EXCEPT ![c] = "fastCount"]
  /\ UNCHANGED <<file, isDatabaseInitialized, isInitializing, table, stmts,
                 qpc, health, crashed, hist>>
  /\ result' = QuietResult
  /\ qres' = QuietQres

FastCountDone(c) ==
  /\ ~crashed
  /\ pc[c] = "fastCount"
  /\ result' = [QuietResult EXCEPT ![c] =
        IF table.exists
        THEN InfoResult(c, "fast", Len(table.rows), loc[c].info, hist.ok.load)
        ELSE ErrorResult(c, "fast", "engine", 0)]
  /\ pc' = [pc EXCEPT ![c] = "done"]
  /\ loc' = [loc EXCEPT ![c] = NoLocals]
  /\ UNCHANGED <<file, isDatabaseInitialized, isInitializing, table, stmts,
                 qpc, health, crashed, hist>>
  /\ qres' = QuietQres

\* ------------------------------------------------------------ the CSV load
\* A loader without the header check.
HeaderNeverFailed(headers) == FALSE

\* !headerProcessed || headers.length === 0
HeaderFailed(headers) == Len(headers) = 0

\* The stream opens the file, which is there.
FileStreamOpen(c) ==
  /\ ~crashed
  /\ pc[c] \in {"readHeader", "inserting"}
  /\ loc[c].stream.at = "created"
  /\ file.present
  /\ loc' = [loc EXCEPT ![c].stream = OpenStream(file)]
  /\ UNCHANGED <<file, isDatabaseInitialized, isInitializing, table, stmts, pc,
                 qpc, health, crashed, hist>>
  /\ result' = QuietResult
  /\ qres' = QuietQres

\* The stream finds no file to open (ENOENT).  The file stream has no
\* 'error' listener of its own (the listener is on the parser it is piped
\* into): its 'error' is uncaught and kills the process.
FileStreamError(c) ==
  /\ ~crashed
  /\ pc[c] \in {"readHeader", "inserting"}
  /\ loc[c].stream.at = "created"
  /\ ~file.present
  /\ crashed' = TRUE
  /\ UNCHANGED <<file, isDatabaseInitialized, isInitializing, table, stmts, pc,
                 loc, qpc, health, hist>>
  /\ result' = QuietResult
  /\ qres' = QuietQres

\* The first pass ended: headers and headerProcessed are known.  A file
\* without a header line fails the load; otherwise DROP TABLE is issued.
HeaderPassEnd(c) ==
  /\ ~crashed
  /\ pc[c] = "readHeader"
  /\ loc[c].stream.at = "open"
  /\ IF HeaderFailed(loc[c].stream.hdr)
     THEN FailLoad(c, "load", "header")
     ELSE /\ loc' = [loc EXCEPT ![c].headers = loc[c].stream.hdr,
                                ![c].schema = inferSchema(loc[c].stream.hdr),
                                ![c].stream = NoStream]
          /\ pc' = [pc EXCEPT ![c] = "dropping"]
          /\ UNCHANGED <<isInitializing, hist>>
          /\ result' = QuietResult
  /\ UNCHANGED <<file, isDatabaseInitialized, table, stmts, qpc, health,
                 crashed>>
  /\ qres' = QuietQres

\* The parser of the first pass emitted 'error': the promise rejects.
HeaderPassError(c) ==
  /\ ~crashed
  /\ pc[c] = "readHeader"
  /\ loc[c].stream.at = "open"
  /\ FailLoad(c, "load", "stream")
  /\ UNCHANGED <<file, isDatabaseInitialized, table, stmts, qpc, health,
                 crashed>>
  /\ qres' = QuietQres

\* A loader that issues CREATE TABLE without having run DROP TABLE.
DropSkipped(c) ==
  /\ ~crashed
  /\ pc[c] = "dropping"
  /\ pc' = [pc EXCEPT ![c] = "creating"]
  /\ UNCHANGED <<file, isDatabaseInitialized, isInitializing, table, stmts,
                 loc, qpc, health, crashed, hist>>
  /\ result' = QuietResult
  /\ qres' = QuietQres

\* DROP TABLE IF EXISTS orders ran; CREATE TABLE is issued.
DropDone(c) ==
  /\ ~crashed
  /\ pc[c] = "dropping"
  /\ table' = NoTable
  /\ hist' = [hist EXCEPT !.created = 0]
  /\ pc' = [pc EXCEPT ![c] = "creating"]
  /\ UNCHANGED <<file, isDatabaseInitialized, isInitializing, stmts, loc, qpc,
                 health, crashed>>
  /\ result' = QuietResult
  /\ qres' = QuietQres

\* The engine reported an error for DROP TABLE: runQuery rejects.
DropError(c) ==
  /\ ~crashed
  /\ pc[c] = "dropping"
  /\ FailLoad(c, "load", "engine")
  /\ UNCHANGED <<file, isDatabaseInitialized, table, stmts, qpc, health,
                 crashed>>
  /\ qres' = QuietQres

\* CREATE TABLE orders (...) ran; on success the second pass is opened.
CreateDone(c) ==
  /\ ~crashed
  /\ pc[c] = "creating"
  /\ IF CreateRejected(table, columnDefs(loc[c].schema))
     THEN /\ FailLoad(c, "load", "engine")
          /\ UNCHANGED <<table, crashed>>
     ELSE /\ table' = CreateTable(columnDefs(loc[c].schema))
          /\ hist' = [hist EXCEPT !.created = loc[c].load]
          /\ loc' = [loc EXCEPT ![c].stream = CreatedStream]
          /\ pc' = [pc EXCEPT ![c] = "inserting"]
          /\ UNCHANGED <<isInitializing, crashed>>
          /\ result' = QuietResult
  /\ UNCHANGED <<file, isDatabaseInitialized, stmts, qpc, health>>
  /\ qres' = QuietQres

\* batch.length >= batchSize
BatchFull(batch) == Len(batch) >= batchSize

\* A flush at stream end whether or not rows remain.
FlushAlways(batch) == TRUE

\* batch.length > 0
FlushNeeded(batch) == Len(batch) > 0

\* db.prepare, one stmt.run per record of the batch, stmt.finalize.
IssueBatch(l) ==
  Append(stmts, [load |-> l.load, runs |-> BatchRuns(l.headers, l.stream.hdr, l.batch)])

\* 'data' of the second pass: the row joins the batch; a batch that has
\* reached batchSize is handed to a fresh prepared statement, run by run.
OnData(c) ==
  /\ ~crashed
  /\ pc[c] = "inserting"
  /\ loc[c].stream.at = "open"
  /\ loc[c].stream.rows # <<>>
  /\ LET l == [loc[c] EXCEPT !.batch = Append(@, Head(loc[c].stream.rows)),
                             !.stream.rows = Tail(@)]
     IN IF BatchFull(l.batch)
        THEN /\ stmts' = IssueBatch(l)
             /\ loc' = [loc EXCEPT ![c] = [l EXCEPT !.batch = <<>>,
                                                     !.totalRows = @ + Len(l.batch)]]
             /\ hist' = [hist EXCEPT !.batches = Append(@, Len(l.batch)),
                                     !.issued = @ \o l.batch]
        ELSE /\ loc' = [loc EXCEPT ![c] = l]
             /\ UNCHANGED <<stmts, hist>>
  /\ UNCHANGED <<file, isDatabaseInitialized, isInitializing, table, pc, qpc,
                 health, crashed>>
  /\ result' = QuietResult
  /\ qres' = QuietQres

\* 'end' of the second pass: the remaining rows are queued, then both flags
\* are set and the promise resolves; loadCSVData returns to its caller.
OnEnd(c) ==
  /\ ~crashed
  /\ pc[c] = "inserting"
  /\ loc[c].stream.at = "open"
  /\ loc[c].stream.rows = <<>>
  /\ LET l == loc[c]
         flush == FlushNeeded(l.batch)
         total == IF flush THEN l.totalRows + Len(l.batch) ELSE l.totalRows
     IN /\ stmts' = IF flush THEN IssueBatch(l) ELSE stmts
        /\ hist' = [hist EXCEPT
              !.batches = IF flush THEN Append(@, Len(l.batch)) ELSE @,
              !.issued = IF flush THEN @ \o l.batch ELSE @,
              !.ok = [load |-> l.load, owner |-> c, rowCount |-> total,
                      schema |-> l.schema, n |-> l.stream.n]]
        /\ result' = [QuietResult EXCEPT ![c] =
                         InfoResult(c, "load", total, l.schema, l.load)]
  /\ isDatabaseInitialized' = TRUE
  /\ isInitializing' = FALSE
  /\ pc' = [pc EXCEPT ![c] = "done"]
  /\ loc' = [loc EXCEPT ![c] = NoLocals]
  /\ UNCHANGED <<file, table, qpc, health, crashed>>
  /\ qres' = QuietQres

\* The parser of the second pass emitted 'error': the handler resets
\* isInitializing and rejects, and the catch block resets it again.
OnStreamError(c) ==
  /\ ~crashed
  /\ pc[c] = "inserting"
  /\ loc[c].stream.at = "open"
  /\ FailLoad(c, "load", "stream")
  /\ UNCHANGED <<file, isDatabaseInitialized, table, stmts, qpc, health,
                 crashed>>
  /\ qres' = QuietQres

\* ------------------------------------------------------- queued inserts
\* stmts without the oldest run of statement i; a statement whose runs are
\* all done is finalized.
AfterRun(i) ==
  IF Len(stmts[i].runs) = 1
  THEN [k \in 1..(Len(stmts) - 1) |-> IF k < i THEN stmts[k] ELSE stmts[k + 1]]
  ELSE [stmts EXCEPT ![i].runs = Tail(@)]

\* The engine runs the oldest queued run of one statement.  It rejects the
\* insert when the table does not take it, or for a reason of its own (out
\* of memory, I/O).  stmt.run was given no callback, so the error is emitted
\* as an 'error' event on the statement, which has no listener: the process
\* dies of the uncaught error.
RunInsert(i, fault) ==
  /\ ~crashed
  /\ i \in DOMAIN stmts
  /\ IF fault \/ InsertRejected(table, Head(stmts[i].runs))
     THEN /\ crashed' = TRUE
          /\ hist' = [hist EXCEPT !.insertFailed = stmts[i].load]
          /\ UNCHANGED <<table, stmts>>
     ELSE /\ table' = [table EXCEPT !.rows = Append(@, Head(stmts[i].runs))]
          /\ stmts' = AfterRun(i)
          /\ UNCHANGED <<crashed, hist>>
  /\ UNCHANGED <<file, isDatabaseInitialized, isInitializing, pc, loc, qpc,
                 health>>
  /\ result' = QuietResult
  /\ qres' = QuietQres

\* ------------------------------------------- POST /api/query, GET /api/schema
\* The requests made: POST /api/query with SELECT * FROM orders, with
\* DROP TABLE orders, with DELETE FROM orders, with INSERT INTO orders
\* VALUES ('9', 'z'), with UPDATE orders SET a = 'changed', with ALTER TABLE
\* orders ADD COLUMN extra TEXT, with CREATE TABLE orders (extra TEXT), or
\* without a query in the body ("missing"), and GET /api/schema/orders.
QueryKinds == {"select", "drop", "delete", "insert", "update", "alter", "create",
               "missing", "schema"}

ColExtra == <<"extra">>
ExtraDef == ColExtra \o <<"TEXT">>
WriteKinds == {"drop", "delete", "insert", "update", "alter", "create"}
InsertedRow == <<"9", "z">>
Changed == "changed"

Answer(code, k, r) == [status |-> code, success |-> code = 200, kind |-> k, rows |-> r]

\* A gate that also lets requests through while a load is running.
GateClosedUnlessLoading == ~isDatabaseInitialized /\ ~isInitializing

\* checkDatabaseReady: every route but /api/init and /health is refused
\* while isDatabaseInitialized is false.
GateClosed == ~isDatabaseInitialized

\* !query
QueryMissing(k) == k = "missing"

\* The middleware, then the route up to its call of runQuery.
QueryRequest(q, k) ==
  /\ ~crashed
  /\ qpc[q] = "idle"
  /\ k \in WriteKinds => hist.writes < MaxWrites
  /\ IF GateClosed
     THEN /\ qres' = [QuietQres EXCEPT ![q] = Answer(503, "none", <<>>)]
          /\ UNCHANGED qpc
     ELSE IF QueryMissing(k)
          THEN /\ qres' = [QuietQres EXCEPT ![q] = Answer(400, k, <<>>)]
               /\ UNCHANGED qpc
          ELSE /\ qres' = [QuietQres EXCEPT ![q] = Answer(0, k, <<>>)]
               /\ qpc' = [qpc EXCEPT ![q] = "running"]
  /\ UNCHANGED <<file, isDatabaseInitialized, isInitializing, table, stmts, pc,
                 loc, health, crashed, hist>>
  /\ result' = QuietResult

\* Whether the table has a column of the name.
HasColumn(tbl, name) == \E i \in 1..Len(tbl.cols) : tbl.cols[i].name = name

\* Whether the engine rejects a statement of kind k: a table that is not
\* there, a table or a column that is there already, a column that is not
\* there, another number of values than the table has columns.
QueryRejected(k, tbl) ==
  CASE k = "create" -> tbl.exists
    [] k = "alter" -> ~tbl.exists \/ HasColumn(tbl, ColExtra)
    [] k = "insert" -> InsertRejected(tbl, InsertedRow)
    [] k = "update" -> ~tbl.exists \/ ~HasColumn(tbl, ColA)
    [] OTHER -> ~tbl.exists

\* UPDATE orders SET a = 'changed': column a of a row is overwritten.
UpdatedRow(tbl, row) ==
  [i \in 1..Len(row) |-> IF tbl.cols[i].name = ColA THEN Changed ELSE row[i]]

\* The table after a statement of kind k that the engine accepted.
QueryEffect(k, tbl) ==
  CASE k = "drop" -> NoTable
    [] k = "delete" -> [tbl EXCEPT !.rows = <<>>]
    [] k = "insert" -> [tbl EXCEPT !.rows = Append(@, InsertedRow)]
    [] k = "update" -> [tbl EXCEPT !.rows = [i \in 1..Len(@) |-> UpdatedRow(tbl, @[i])]]
    [] k = "alter" -> [tbl EXCEPT !.cols = Append(@, ParseColumnDef(ExtraDef)),
                                  !.rows = [i \in 1..Len(@) |-> Append(@[i], NULL)]]
    [] k = "create" -> CreateTable(<<ExtraDef>>)
    [] OTHER -> tbl

\* What the engine answers to a statement of kind k, as the route reports it.
QueryAnswer(k) ==
  CASE k = "schema" -> IF TableInfo(table) = <<>> THEN Answer(404, k, <<>>)
                       ELSE Answer(200, k, TableInfo(table))
    [] k = "select" -> IF QueryRejected(k, table) THEN Answer(400, k, <<>>)
                       ELSE Answer(200, k, table.rows)
    [] OTHER -> IF QueryRejected(k, table) THEN Answer(400, k, <<>>)
                ELSE Answer(200, k, <<>>)

\* The table after the engine has run a statement of kind k.
QueryTable(k) ==
  IF k = "schema" \/ QueryRejected(k, table) THEN table ELSE QueryEffect(k, table)

\* The history after a statement of kind k: a client statement that changed
\* the table is recorded, and a table the client dropped or created is not
\* the table of a load.
QueryHist(k) ==
  IF QueryTable(k) = table THEN hist
  ELSE [hist EXCEPT !.writes = @ + 1,
                    !.created = IF k \in {"drop", "create"} THEN 0 ELSE @]

\* The engine ran the statement and the route answered.
QueryDone(q) ==
  /\ ~crashed
  /\ qpc[q] = "running"
  /\ qpc' = [qpc EXCEPT ![q] = "idle"]
  /\ qres' = [QuietQres EXCEPT ![q] = QueryAnswer(qres[q].kind)]
  /\ table' = QueryTable(qres[q].kind)
  /\ hist' = QueryHist(qres[q].kind)
  /\ UNCHANGED <<file, isDatabaseInitialized, isInitializing, stmts, pc, loc,
                 health, crashed>>
  /\ result' = QuietResult

\* ---------------------------------------------------------------- GET /health
NoHealth == [status |-> 0, dbInitialized |-> FALSE, dbInitializing |-> FALSE]

\* A middleware that lets only /api/init past the readiness check.
GateSkipsInitOnly(path) == path = "/api/init"

\* req.path === '/api/init' || req.path === '/health'
GateSkipped(path) == path \in {"/api/init", "/health"}

\* checkDatabaseReady for the path, then the /health route.
Health ==
  /\ ~crashed
  /\ health' = IF ~GateSkipped("/health") /\ GateClosed
               THEN [NoHealth EXCEPT !.status = 503]
               ELSE [status |-> 200, dbInitialized |-> isDatabaseInitialized,
                     dbInitializing |-> isInitializing]
  /\ UNCHANGED <<file, isDatabaseInitialized, isInitializing, table, stmts, pc,
                 loc, qpc, crashed, hist>>
  /\ result' = QuietResult
  /\ qres' = QuietQres

\* ------------------------------------------------------------- environment
\* orders.csv is put into the public folder, and later taken out of it.
PlaceFile(f) ==
  /\ ~crashed
  /\ ~file.present
  /\ ~file.removed
  /\ file' = f
  /\ UNCHANGED <<isDatabaseInitialized, isInitializing, table, stmts, pc, loc,
                 qpc, health, crashed, hist>>
  /\ result' = QuietResult
  /\ qres' = QuietQres

RemoveFile ==
  /\ ~crashed
  /\ file.present
  /\ file' = Removed
  /\ UNCHANGED <<isDatabaseInitialized, isInitializing, table, stmts, pc, loc,
                 qpc, health, crashed, hist>>
  /\ result' = QuietResult
  /\ qres' = QuietQres

\* ------------------------------------------------------------ specification
\* The state when the module has been evaluated: the flags are false, the
\* database is empty, and the startup check has called loadCSVData if the
\* file is there, which runs to its first await.
InitWith(f) ==
  /\ file = f
  /\ isDatabaseInitialized = FALSE
  /\ isInitializing = f.present
  /\ table = NoTable
  /\ stmts = <<>>
  /\ pc = [c \in Callers |-> IF c # Auto THEN "idle"
                             ELSE IF f.present THEN "readHeader" ELSE "done"]
  /\ loc = [c \in Callers |->
             IF c = Auto /\ f.present
             THEN [NoLocals EXCEPT !.load = 1, !.stream = CreatedStream]
             ELSE NoLocals]
  /\ result = [c \in Callers |-> NoResult]
  /\ qpc = [q \in Queries |-> "idle"]
  /\ qres = [q \in Queries |-> NoAnswer]
  /\ health = NoHealth
  /\ crashed = FALSE
  /\ hist = [nLoads |-> IF f.present THEN 1 ELSE 0,
             owners |-> IF f.present THEN <<Auto>> ELSE <<>>,
             ok |-> NoLoad, lastFailed |-> 0, insertFailed |-> 0, writes |-> 0,
             batches |-> <<>>, issued |-> <<>>,
             created |-> 0]

Init == \E f \in Files \cup {NoFile} : InitWith(f)

Next ==
  \/ \E c \in Requests : InitRequest(c)
  \/ \E c \in Callers : PollTimer(c)
  \/ \E c \in Callers : PollPragmaDone(c)
  \/ \E c \in Callers : PollCountDone(c)
  \/ \E c \in Callers : FastPragmaDone(c)
  \/ \E c \in Callers : FastCountDone(c)
  \/ \E c \in Callers : FileStreamOpen(c)
  \/ \E c \in Callers : FileStreamError(c)
  \/ \E c \in Callers : HeaderPassEnd(c)
  \/ \E c \in Callers : HeaderPassError(c)
  \/ \E c \in Callers : DropDone(c)
  \/ \E c \in Callers : DropError(c)
  \/ \E c \in Callers : CreateDone(c)
  \/ \E c \in Callers : OnData(c)
  \/ \E c \in Callers : OnEnd(c)
  \/ \E c \in Callers : OnStreamError(c)
  \/ \E i \in 1..Len(stmts), fault \in BOOLEAN : RunInsert(i, fault)
  \/ \E q \in Queries, k \in QueryKinds : QueryRequest(q, k)
  \/ \E q \in Queries : QueryDone(q)
  \/ \E f \in Files : PlaceFile(f)
  \/ RemoveFile

Spec == Init /\ [][Next]_vars

\* The initialization machinery with GET /health: every step that reads or
\* writes the two flags, without the query and schema requests.
NextHealth ==
  \/ \E c \in Requests : InitRequest(c)
  \/ \E c \in Callers : PollTimer(c)
  \/ \E c \in Callers : PollPragmaDone(c)
  \/ \E c \in Callers : PollCountDone(c)
  \/ \E c \in Callers : FastPragmaDone(c)
  \/ \E c \in Callers : FastCountDone(c)
  \/ \E c \in Callers : FileStreamOpen(c)
  \/ \E c \in Callers : FileStreamError(c)
  \/ \E c \in Callers : HeaderPassEnd(c)
  \/ \E c \in Callers : HeaderPassError(c)
  \/ \E c \in Callers : DropDone(c)
  \/ \E c \in Callers : DropError(c)
  \/ \E c \in Callers : CreateDone(c)
  \/ \E c \in Callers : OnData(c)
  \/ \E c \in Callers : OnEnd(c)
  \/ \E c \in Callers : OnStreamError(c)
  \/ \E i \in 1..Len(stmts), fault \in BOOLEAN : RunInsert(i, fault)
  \/ \E f \in Files : PlaceFile(f)
  \/ RemoveFile
  \/ Health

SpecHealth == Init /\ [][NextHealth]_vars

\* The client of an answered POST /api/init sends the next one.
RequestAgain(c) ==
  /\ ~crashed
  /\ c \in Requests
  /\ pc[c] = "done"
  /\ pc' = [pc EXCEPT ![c] = "idle"]
  /\ result' = QuietResult
  /\ UNCHANGED <<file, isDatabaseInitialized, isInitializing, table, stmts,
                 loc, qpc, health, crashed, hist>>
  /\ qres' = QuietQres

\* A step of the load that the event loop takes by itself: a stream opening
\* the file, the end of the first pass, the engine's answer to DROP and
\* CREATE, a row or the end of the second pass.
LoadStep(c) ==
  \/ FileStreamOpen(c)
  \/ HeaderPassEnd(c)
  \/ DropDone(c)
  \/ CreateDone(c)
  \/ OnData(c)
  \/ OnEnd(c)

\* The server under clients that keep sending POST /api/init, with loads
\* that the parser or the engine may fail, the file staying in place.
NextPoll ==
  \/ \E c \in Requests : InitRequest(c)
  \/ \E c \in Requests : RequestAgain(c)
  \/ \E c \in Callers : PollTimer(c)
  \/ \E c \in Callers : PollPragmaDone(c)
  \/ \E c \in Callers : PollCountDone(c)
  \/ \E c \in Callers : FastPragmaDone(c)
  \/ \E c \in Callers : FastCountDone(c)
  \/ \E c \in Callers : LoadStep(c)
  \/ \E c \in Callers : HeaderPassError(c)
  \/ \E c \in Callers : DropError(c)
  \/ \E c \in Callers : OnStreamError(c)
  \/ \E i \in 1..Len(stmts) : RunInsert(i, FALSE)
  \/ \E f \in Files : PlaceFile(f)

\* Every load attempt goes on until it has succeeded or failed, the 100 ms
\* timer of every polling caller fires, and the engine answers the PRAGMA
\* and the COUNT of a caller that waited.
FairPoll ==
  \A c \in Callers :
    /\ WF_vars(LoadStep(c))
    /\ WF_vars(PollTimer(c))
    /\ WF_vars(PollPragmaDone(c))
    /\ WF_vars(PollCountDone(c))

SpecPoll == Init /\ [][NextPoll]_vars /\ FairPoll

\* The startup load, and the engine applying the inserts it queues, on files
\* around the batch boundaries: n data rows for every n within one row of a
\* multiple of batchSize, up to MaxBatches.  No request arrives.
BatchSizes ==
  {n \in 0..(MaxBatches * batchSize + 1) :
     \E k \in 0..MaxBatches : n \in {k * batchSize - 1, k * batchSize, k * batchSize + 1}}

BatchFile(n) == CSV(<<ColA>>, [i \in 1..n |-> <<i>>])

InitBatch == \E n \in BatchSizes : InitWith(BatchFile(n))

NextBatch ==
  \/ \E i \in 1..Len(stmts), fault \in BOOLEAN : RunInsert(i, fault)
  \/ FileStreamOpen(Auto)
  \/ HeaderPassEnd(Auto)
  \/ DropDone(Auto)
  \/ CreateDone(Auto)
  \/ OnData(Auto)
  \/ OnEnd(Auto)

SpecBatch == InitBatch /\ [][NextBatch]_vars

TypeOK ==
  /\ isDatabaseInitialized \in BOOLEAN
  /\ isInitializing \in BOOLEAN
  /\ crashed \in BOOLEAN
  /\ \A c \in Callers : pc[c] \in {"idle", "done", "polling", "pollPragma", "pollCount",
        "fastPragma", "fastCount", "readHeader", "dropping", "creating", "inserting"}
  /\ hist.nLoads \in 0..Cardinality(Callers)

\* ================================================================ server.js
\* The server of src/server.js: the same loader, routes and engine, without
\* the two flags, the polling loop, the readiness middleware, the /health
\* route and the startup check.  The flag variables stay FALSE and the
\* startup caller Auto never acts.

\* The catch block of loadCSVData rethrows; the route answers 500.
SrvFailLoad(c, what) ==
  /\ result' = [QuietResult EXCEPT ![c] = ErrorResult(c, "load", what, loc[c].load)]
  /\ pc' = [pc EXCEPT ![c] = "done"]
  /\ loc' = [loc EXCEPT ![c] = NoLocals]
  /\ hist' = [hist EXCEPT !.lastFailed = loc[c].load]

\* POST /api/init: 404 when the file is missing, otherwise loadCSVData runs
\* to its first await (the first pass over the file is opened).
SrvInitRequest(c) ==
  /\ ~crashed
  /\ c \in Requests
  /\ pc[c] = "idle"
  /\ \A d \in Requests : d < c => pc[d] # "idle"
  /\ IF ~file.present
     THEN /\ result' = [QuietResult EXCEPT ![c] = NotFoundResult(c)]
          /\ pc' = [pc EXCEPT ![c] = "done"]
          /\ UNCHANGED <<loc, hist>>
     ELSE /\ pc' = [pc EXCEPT ![c] = "readHeader"]
          /\ loc' = [loc EXCEPT ![c] = [NoLocals EXCEPT !.load = hist.nLoads + 1,
                                                        !.stream = CreatedStream]]
          /\ hist' = [hist EXCEPT !.nLoads = @ + 1, !.owners = Append(@, c)]
          /\ result' = QuietResult
  /\ UNCHANGED <<file, isDatabaseInitialized, isInitializing, table, stmts,
                 qpc, health, crashed>>
  /\ qres' = QuietQres

\* The stream opens the file, which is there.
SrvFileStreamOpen(c) ==
  /\ ~crashed
  /\ pc[c] \in {"readHeader", "inserting"}
  /\ loc[c].stream.at = "created"
  /\ file.present
  /\ loc' = [loc EXCEPT ![c].stream = OpenStream(file)]
  /\ UNCHANGED <<file, isDatabaseInitialized, isInitializing, table, stmts, pc,
                 qpc, health, crashed, hist>>
  /\ result' = QuietResult
  /\ qres' = QuietQres

\* The stream finds no file to open: the uncaught 'error' kills the process.
SrvFileStreamError(c) ==
  /\ ~crashed
  /\ pc[c] \in {"readHeader", "inserting"}
  /\ loc[c].stream.at = "created"
  /\ ~file.present
  /\ crashed' = TRUE
  /\ UNCHANGED <<file, isDatabaseInitialized, isInitializing, table, stmts, pc,
                 loc, qpc, health, hist>>
  /\ result' = QuietResult
  /\ qres' = QuietQres

\* The first pass ended; the header check, then DROP TABLE is issued.
SrvHeaderPassEnd(c) ==
  /\ ~crashed
  /\ pc[c] = "readHeader"
  /\ loc[c].stream.at = "open"
  /\ IF HeaderFailed(loc[c].stream.hdr)
     THEN SrvFailLoad(c, "header")
     ELSE /\ loc' = [loc EXCEPT ![c].headers = loc[c].stream.hdr,
                                ![c].schema = inferSchema(loc[c].stream.hdr),
                                ![c].stream = NoStream]
          /\ pc' = [pc EXCEPT ![c] = "dropping"]
          /\ UNCHANGED hist
          /\ result' = QuietResult
  /\ UNCHANGED <<file, isDatabaseInitialized, isInitializing, table, stmts,
                 qpc, health, crashed>>
  /\ qres' = QuietQres

\* The parser of the first pass emitted 'error'.
SrvHeaderPassError(c) ==
  /\ ~crashed
  /\ pc[c] = "readHeader"
  /\ loc[c].stream.at = "open"
  /\ SrvFailLoad(c, "stream")
  /\ UNCHANGED <<file, isDatabaseInitialized, isInitializing, table, stmts,
                 qpc, health, crashed>>
  /\ qres' = QuietQres

\* DROP TABLE IF EXISTS orders ran; CREATE TABLE is issued.
SrvDropDone(c) ==
  /\ ~crashed
  /\ pc[c] = "dropping"
  /\ table' = NoTable
  /\ hist' = [hist EXCEPT !.created = 0]
  /\ pc' = [pc EXCEPT ![c] = "creating"]
  /\ UNCHANGED <<file, isDatabaseInitialized, isInitializing, stmts, loc, qpc,
                 health, crashed>>
  /\ result' = QuietResult
  /\ qres' = QuietQres

\* The engine reported an error for DROP TABLE.
SrvDropError(c) ==
  /\ ~crashed
  /\ pc[c] = "dropping"
  /\ SrvFailLoad(c, "engine")
  /\ UNCHANGED <<file, isDatabaseInitialized, isInitializing, table, stmts,
                 qpc, health, crashed>>
  /\ qres' = QuietQres

\* CREATE TABLE orders (...) ran; on success the second pass is opened.
SrvCreateDone(c) ==
  /\ ~crashed
  /\ pc[c] = "creating"
  /\ IF CreateRejected(table, columnDefs(loc[c].schema))
     THEN /\ SrvFailLoad(c, "engine")
          /\ UNCHANGED <<table, crashed>>
     ELSE /\ table' = CreateTable(columnDefs(loc[c].schema))
          /\ hist' = [hist EXCEPT !.created = loc[c].load]
          /\ loc' = [loc EXCEPT ![c].stream = CreatedStream]
          /\ pc' = [pc EXCEPT ![c] = "inserting"]
          /\ UNCHANGED crashed
          /\ result' = QuietResult
  /\ UNCHANGED <<file, isDatabaseInitialized, isInitializing, stmts, qpc,
                 health>>
  /\ qres' = QuietQres

\* 'data' of the second pass, with the flush of a batch of batchSize rows.
SrvOnData(c) ==
  /\ ~crashed
  /\ pc[c] = "inserting"
  /\ loc[c].stream.at = "open"
  /\ loc[c].stream.rows # <<>>
  /\ LET l == [loc[c] EXCEPT !.batch = Append(@, Head(loc[c].stream.rows)),
                             !.stream.rows = Tail(@)]
     IN IF BatchFull(l.batch)
        THEN /\ stmts' = IssueBatch(l)
             /\ loc' = [loc EXCEPT ![c] = [l EXCEPT !.batch = <<>>,
                                                     !.totalRows = @ + Len(l.batch)]]
        ELSE /\ loc' = [loc EXCEPT ![c] = l]
             /\ UNCHANGED stmts
  /\ UNCHANGED <<file, isDatabaseInitialized, isInitializing, table, pc, qpc,
                 health, crashed, hist>>
  /\ result' = QuietResult
  /\ qres' = QuietQres

\* 'end' of the second pass: the remaining rows are queued and the promise
\* resolves; loadCSVData returns and the route answers 200.
SrvOnEnd(c) ==
  /\ ~crashed
  /\ pc[c] = "inserting"
  /\ loc[c].stream.at = "open"
  /\ loc[c].stream.rows = <<>>
  /\ LET l == loc[c]
         flush == FlushNeeded(l.batch)
         total == IF flush THEN l.totalRows + Len(l.batch) ELSE l.totalRows
     IN /\ stmts' = IF flush THEN IssueBatch(l) ELSE stmts
        /\ hist' = [hist EXCEPT
              !.ok = [load |-> l.load, owner |-> c, rowCount |-> total,
                      schema |-> l.schema, n |-> l.stream.n]]
        /\ result' = [QuietResult EXCEPT ![c] =
                         InfoResult(c, "load", total, l.schema, l.load)]
  /\ pc' = [pc EXCEPT ![c] = "done"]
  /\ loc' = [loc EXCEPT ![c] = NoLocals]
  /\ UNCHANGED <<file, isDatabaseInitialized, isInitializing, table, qpc,
                 health, crashed>>
  /\ qres' = QuietQres

\* The parser of the second pass emitted 'error'.
SrvOnStreamError(c) ==
  /\ ~crashed
  /\ pc[c] = "inserting"
  /\ loc[c].stream.at = "open"
  /\ SrvFailLoad(c, "stream")
  /\ UNCHANGED <<file, isDatabaseInitialized, isInitializing, table, stmts,
                 qpc, health, crashed>>
  /\ qres' = QuietQres

\* The engine runs the oldest queued run of one statement.
SrvRunInsert(i, fault) ==
  /\ ~crashed
  /\ i \in DOMAIN stmts
  /\ IF fault \/ InsertRejected(table, Head(stmts[i].runs))
     THEN /\ crashed' = TRUE
          /\ hist' = [hist EXCEPT !.insertFailed = stmts[i].load]
          /\ UNCHANGED <<table, stmts>>
     ELSE /\ table' = [table EXCEPT !.rows = Append(@, Head(stmts[i].runs))]
          /\ stmts' = AfterRun(i)
          /\ UNCHANGED <<crashed, hist>>
  /\ UNCHANGED <<file, isDatabaseInitialized, isInitializing, pc, loc, qpc,
                 health>>
  /\ result' = QuietResult
  /\ qres' = QuietQres

\* POST /api/query and GET /api/schema/orders: no middleware stands before
\* the route; the statement goes to runQuery.
SrvQueryRequest(q, k) ==
  /\ ~crashed
  /\ qpc[q] = "idle"
  /\ k \in WriteKinds => hist.writes < MaxWrites
  /\ IF QueryMissing(k)
     THEN /\ qres' = [QuietQres EXCEPT ![q] = Answer(400, k, <<>>)]
          /\ UNCHANGED qpc
     ELSE /\ qres' = [QuietQres EXCEPT ![q] = Answer(0, k, <<>>)]
          /\ qpc' = [qpc EXCEPT ![q] = "running"]
  /\ UNCHANGED <<file, isDatabaseInitialized, isInitializing, table, stmts, pc,
                 loc, health, crashed, hist>>
  /\ result' = QuietResult

\* The engine ran the statement and the route answered.
SrvQueryDone(q) ==
  /\ ~crashed
  /\ qpc[q] = "running"
  /\ qpc' = [qpc EXCEPT ![q] = "idle"]
  /\ qres' = [QuietQres EXCEPT ![q] = QueryAnswer(qres[q].kind)]
  /\ table' = QueryTable(qres[q].kind)
  /\ hist' = QueryHist(qres[q].kind)
  /\ UNCHANGED <<file, isDatabaseInitialized, isInitializing, stmts, pc, loc,
                 health, crashed>>
  /\ result' = QuietResult

\* No flags, no table, and no request has been made.
InitServer ==
  /\ file \in Files \cup {NoFile}
  /\ isDatabaseInitialized = FALSE
  /\ isInitializing = FALSE
  /\ table = NoTable
  /\ stmts = <<>>
  /\ pc = [c \in Callers |-> IF c = Auto THEN "done" ELSE "idle"]
  /\ loc = [c \in Callers |-> NoLocals]
  /\ result = [c \in Callers |-> NoResult]
  /\ qpc = [q \in Queries |-> "idle"]
  /\ qres = [q \in Queries |-> NoAnswer]
  /\ health = NoHealth
  /\ crashed = FALSE
  /\ hist = [nLoads |-> 0, owners |-> <<>>, ok |-> NoLoad, lastFailed |-> 0,
             insertFailed |-> 0, writes |-> 0, batches |-> <<>>,
             issued |-> <<>>, created |-> 0]

NextServer ==
  \/ \E c \in Requests : SrvInitRequest(c)
  \/ \E c \in Requests : SrvFileStreamOpen(c)
  \/ \E c \in Requests : SrvFileStreamError(c)
  \/ \E c \in Requests : SrvHeaderPassEnd(c)
  \/ \E c \in Requests : SrvHeaderPassError(c)
  \/ \E c \in Requests : SrvDropDone(c)
  \/ \E c \in Requests : SrvDropError(c)
  \/ \E c \in Requests : SrvCreateDone(c)
  \/ \E c \in Requests : SrvOnData(c)
  \/ \E c \in Requests : SrvOnEnd(c)
  \/ \E c \in Requests : SrvOnStreamError(c)
  \/ \E i \in 1..Len(stmts), fault \in BOOLEAN : SrvRunInsert(i, fault)
  \/ \E q \in Queries, k \in QueryKinds : SrvQueryRequest(q, k)
  \/ \E q \in Queries : SrvQueryDone(q)
  \/ \E f \in Files : PlaceFile(f)
  \/ RemoveFile

SpecServer == InitServer /\ [][NextServer]_vars

\* ================================================================== claims
Loaders == {c \in Callers : InLoad(c)}

\* A step in which caller c sets isInitializing and starts a load.
Claims(c) == ~InLoad(c) /\ InLoad(c)'

\* C1: at most one caller at a time is inside the load body, a caller is
\* inside it exactly while isInitializing is set, and a caller enters it
\* only in a step that found isInitializing (and isDatabaseInitialized)
\* false and that sets isInitializing.
C1_OneLoaderAtATime ==
  /\ [](Cardinality(Loaders) <= 1 /\ (isInitializing <=> Loaders # {}))
  /\ [][\A c \in Callers :
          Claims(c) => ~isInitializing /\ ~isDatabaseInitialized /\ isInitializing']_vars

\* C1 witness: the first load failed, a caller that had been polling has
\* claimed the next load, and another caller is still polling.
C1_Witness ==
  \E c, d \in Requests :
    /\ c # d
    /\ InLoad(c) /\ loc[c].waitFrom > 0
    /\ pc[d] = "polling"
    /\ hist.lastFailed = 1 /\ hist.owners[1] = Auto

\* C2: a query or schema request is in the engine only when
\* isDatabaseInitialized is true and a load has succeeded; while no load has
\* succeeded every such request is answered 503 with success false, the
\* engine is not called and the table is left alone.
C2_GateBeforeEngine ==
  /\ [](\A q \in Queries :
          qpc[q] = "running" => isDatabaseInitialized /\ hist.ok.load > 0)
  /\ [][\A q \in Queries :
          (hist.ok.load = 0 /\ qres[q]' # NoAnswer)
            => /\ qres[q]'.status = 503
               /\ qres[q]'.success = FALSE
               /\ qpc[q]' = "idle"
               /\ table' = table]_vars

\* C2 witness: a request was refused with 503 after a load had failed and
\* before any load succeeded.
C2_Witness ==
  \E q \in Queries, c \in Callers :
    /\ qres[q].status = 503
    /\ hist.lastFailed > 0 /\ hist.owners[hist.lastFailed] = c
    /\ ~isDatabaseInitialized

\* C3: whenever isDatabaseInitialized is true, every insert the load queued
\* has been applied to the table.
C3_RowsBeforeReady == isDatabaseInitialized => stmts = <<>>

\* C4: a caller that waited for a load that succeeded is answered, from its
\* own PRAGMA and COUNT, the rowCount and schema the loading caller returned.
C4_WaiterSeesLeaderResult ==
  \A c \in Callers :
    (/\ result[c].waitFrom > 0
     /\ hist.ok.load = result[c].waitFrom
     /\ result[c].kind # "none"
     /\ hist.writes = 0)
      => /\ result[c].kind = "info"
         /\ result[c].via = "poll"
         /\ result[c].rowCount = hist.ok.rowCount
         /\ result[c].schema = hist.ok.schema

NotStarted == ~isInitializing /\ ~isDatabaseInitialized

\* C5: a load that fails at any step, an error of the file's read stream
\* included, leaves both flags false with the server running, the state
\* stays NotStarted until the next load is claimed, and a POST /api/init
\* that then arrives with the file present starts a fresh load.
C5_FailureResets ==
  /\ [][\A c \in Callers :
          (InLoad(c) /\ result[c]'.kind = "error")
            => NotStarted' /\ hist'.lastFailed = loc[c].load]_vars
  /\ [][\A c \in Callers :
          (InLoad(c) /\ loc[c].stream.at = "created" /\ ~file.present)
            => (crashed' = crashed \/ (NotStarted' /\ result[c]'.kind = "error"))]_vars
  /\ []((hist.nLoads > 0 /\ hist.lastFailed = hist.nLoads) => NotStarted)
  /\ [][\A c \in Requests :
          (/\ pc[c] = "idle" /\ pc[c]' # "idle"
           /\ hist.nLoads > 0 /\ hist.lastFailed = hist.nLoads
           /\ file.present)
            => /\ InLoad(c)'
               /\ loc[c]'.load = hist.nLoads + 1
               /\ result[c]'.kind = "none"]_vars

\* C6 as stated: when a load is claimed while callers are polling, the
\* claiming caller is one of the polling callers.
C6_NextLoaderIsAWaiter ==
  [][\A c \in Callers :
       (Claims(c) /\ \E d \in Callers : d # c /\ pc[d] = "polling")
         => pc[c] = "polling"]_vars

\* C6 amended: an error of a load is answered to the caller that ran that
\* load only; a claim leaves exactly one caller loading and every other
\* polling caller polling; and the load that decides the outcome of a caller
\* that waited is the load it waited for or a later one.
C6_FailureStaysWithLoader ==
  /\ [](\A c \in Callers :
          /\ (result[c].kind = "error" /\ result[c].load > 0)
               => hist.owners[result[c].load] = c
          /\ (result[c].waitFrom > 0 /\ (result[c].kind = "info" \/ result[c].via = "load"))
               => result[c].load >= result[c].waitFrom)
  /\ [][\A c \in Callers :
          Claims(c) => /\ Loaders' = {c}
                       /\ \A d \in Callers \ {c} :
                            pc[d] = "polling" => pc[d]' = "polling"]_vars

\* C6 witness: the startup load failed; one request ran the second load, and
\* another request that had waited since the startup load is answered from
\* the second load.
C6_Witness ==
  \E c, d \in Requests :
    /\ c # d
    /\ hist.lastFailed = 1 /\ hist.owners[1] = Auto
    /\ hist.ok.load = 2 /\ hist.owners[2] = c
    /\ result[d].via = "poll" /\ result[d].waitFrom = 1 /\ result[d].load = 2

\* C7: a POST /api/init answered on the fast path reports the row count of
\* the load that succeeded.
C7_FastPathSameCount ==
  \A c \in Callers :
    (result[c].via = "fast" /\ hist.writes = 0)
      => result[c].kind = "info" /\ result[c].rowCount = hist.ok.rowCount

\* C8: a load one of whose inserts the engine rejected is not published as
\* successful.
C8_InsertErrorAbortsLoad ==
  hist.insertFailed > 0 => hist.ok.load # hist.insertFailed

\* ceil(n / b)
CeilDiv(n, b) == (n + b - 1) \div b

\* C9: a file of n data rows is loaded in ceil(n / batchSize) batches, all
\* of batchSize rows but the last, which holds the rest and is never empty;
\* the rows handed to the engine are the rows of the file, each once, in
\* file order, and the rowCount returned is n; the rows are inserted in file
\* order (the table always holds the first rows of the file, in order), and
\* when every queued insert has run the table holds the file.  While the
\* load streams, the rows issued, the rows in the batch and the rows still
\* to come are the file.
C9_Batches ==
  LET n == Len(file.rows)
      k == CeilDiv(n, batchSize)
      l == loc[Auto]
  IN /\ (pc[Auto] = "inserting" /\ l.stream.at = "open") =>
          /\ hist.issued \o l.batch \o l.stream.rows = file.rows
          /\ Len(l.batch) < batchSize
          /\ l.totalRows = Len(hist.issued)
          /\ \A i \in 1..Len(hist.batches) : hist.batches[i] = batchSize
     /\ pc[Auto] = "done" =>
          /\ hist.ok.rowCount = n
          /\ Len(hist.batches) = k
          /\ \A i \in 1..k : hist.batches[i] > 0
          /\ \A i \in 1..(k - 1) : hist.batches[i] = batchSize
          /\ k > 0 => hist.batches[k] = n - batchSize * (k - 1)
          /\ hist.issued = file.rows
     /\ Len(table.rows) <= n
     /\ \A j \in 1..Len(table.rows) : table.rows[j] = file.rows[j]
     /\ (pc[Auto] = "done" /\ stmts = <<>>) => table.rows = file.rows

\* C10 as stated: the 'end' of a stream that delivered no data row queues
\* no insert, returns rowCount 0 and makes the state Ready over an existing,
\* empty table; from then on no request is refused by the gate, a request
\* that carries a statement is handed to the engine, and every SELECT is
\* answered 200 with no rows.
C10_SelectAfterHeaderOnly ==
  /\ [][\A c \in Callers :
          (pc[c] = "inserting" /\ pc[c]' = "done" /\ result[c]'.kind = "info"
             /\ loc[c].stream.n = 0)
            => /\ result[c]'.rowCount = 0
               /\ stmts' = stmts
               /\ hist'.batches = <<>>
               /\ isDatabaseInitialized' /\ ~isInitializing'
               /\ table'.exists /\ table'.rows = <<>>]_vars
  /\ [][\A q \in Queries :
          (hist.ok.load > 0 /\ hist.ok.n = 0 /\ qpc[q] = "idle"
             /\ qres[q]' # NoAnswer)
            => /\ qres[q]'.status # 503
               /\ qres[q]'.kind # "missing"
                    => qpc[q]' = "running" /\ qres[q]'.status = 0]_vars
  /\ [](\A q \in Queries :
          (hist.ok.load > 0 /\ hist.ok.n = 0
             /\ qres[q].kind = "select" /\ qres[q].status # 0)
            => qres[q].status = 200 /\ qres[q].rows = <<>>)

\* C10 amended: the same, the SELECT being answered 200 with no rows as long
\* as no statement sent through POST /api/query has changed the table since
\* the load.
C10_HeaderOnly ==
  /\ [][\A c \in Callers :
          (pc[c] = "inserting" /\ pc[c]' = "done" /\ result[c]'.kind = "info"
             /\ loc[c].stream.n = 0)
            => /\ result[c]'.rowCount = 0
               /\ stmts' = stmts
               /\ hist'.batches = <<>>
               /\ isDatabaseInitialized' /\ ~isInitializing'
               /\ table'.exists /\ table'.rows = <<>>]_vars
  /\ [][\A q \in Queries :
          (hist.ok.load > 0 /\ hist.ok.n = 0 /\ qpc[q] = "idle"
             /\ qres[q]' # NoAnswer)
            => /\ qres[q]'.status # 503
               /\ qres[q]'.kind # "missing"
                    => qpc[q]' = "running" /\ qres[q]'.status = 0]_vars
  /\ [](\A q \in Queries :
          (hist.ok.load > 0 /\ hist.ok.n = 0 /\ hist.writes = 0
             /\ qres[q].kind = "select" /\ qres[q].status # 0)
            => qres[q].status = 200 /\ qres[q].rows = <<>>)

\* C10 witness: a header-only file was loaded, no client statement has
\* changed the table, and a SELECT was answered 200 with no rows.
C10_Witness ==
  \E q \in Queries :
    /\ hist.ok.load > 0 /\ hist.ok.n = 0 /\ hist.ok.rowCount = 0
    /\ hist.writes = 0
    /\ qres[q].kind = "select" /\ qres[q].status = 200 /\ qres[q].rows = <<>>

\* C11 as stated: a POST /api/init that finds the file absent is answered
\* 404 in every state, the loader is not called, and the flags, the table
\* and the queued inserts are left as they are.
C11_NotFoundInEveryState ==
  [][\A c \in Requests :
       (pc[c] = "idle" /\ pc[c]' # "idle" /\ ~file.present)
         => /\ result[c]'.kind = "notfound" /\ result[c]'.status = 404
            /\ pc[c]' = "done"
            /\ hist'.nLoads = hist.nLoads
            /\ isDatabaseInitialized' = isDatabaseInitialized
            /\ isInitializing' = isInitializing
            /\ table' = table /\ stmts' = stmts]_vars

\* C11 amended: a POST /api/init that finds the file absent while the state
\* is not Ready (NotStarted, InProgress, or after a failed load) is answered
\* 404 with success false, the loader is not called, and the flags, the
\* table and the queued inserts are left as they are; in the Ready state
\* the request is answered by the fast path without a look at the file.
C11_NotFoundUnlessReady ==
  [][\A c \in Requests :
       (pc[c] = "idle" /\ pc[c]' # "idle" /\ ~file.present)
         => /\ isDatabaseInitialized' = isDatabaseInitialized
            /\ isInitializing' = isInitializing
            /\ table' = table /\ stmts' = stmts
            /\ hist'.nLoads = hist.nLoads
            /\ IF AlreadyInitialized
               THEN pc[c]' = "fastPragma" /\ result[c]'.kind = "none"
               ELSE /\ result[c]'.kind = "notfound" /\ result[c]'.status = 404
                    /\ pc[c]' = "done"]_vars

\* C11 witness: the file was taken away while a load was running, and a
\* POST /api/init that arrived during the load was answered 404.
C11_Witness ==
  \E c \in Requests :
    /\ result[c].kind = "notfound" /\ result[c].status = 404
    /\ isInitializing /\ ~file.present /\ file.removed

\* C12: the orders table is dropped or created only by a step of a caller
\* inside the load (its DROP TABLE or its CREATE TABLE), and whenever
\* isDatabaseInitialized is true the table exists with the columns that the
\* CREATE TABLE of the successful load gave it.
C12_OnlyLoaderDropsTable ==
  /\ [][(table'.exists # table.exists \/ table'.cols # table.cols)
          => \E c \in Callers :
               /\ pc[c] \in {"dropping", "creating"}
               /\ pc[c]' # pc[c] \/ crashed' # crashed]_vars
  /\ [](isDatabaseInitialized =>
          /\ table.exists
          /\ table.cols = ParsedColumns(columnDefs(hist.ok.schema)))

\* C13: GET /health is answered 200 whatever the two flags are, the
\* readiness gate never answers it 503, its dbInitialized and dbInitializing
\* are the values of isDatabaseInitialized and isInitializing at the time of
\* the answer, and the request changes neither flag.
C13_HealthAlways200 ==
  /\ [](health.status \in {0, 200})
  /\ [][health' # health
          => /\ health'.status = 200
             /\ health'.dbInitialized = isDatabaseInitialized
             /\ health'.dbInitializing = isInitializing
             /\ isDatabaseInitialized' = isDatabaseInitialized
             /\ isInitializing' = isInitializing]_vars

\* C13 witness: GET /health was answered while a second load was running
\* after a failed one, with dbInitialized false and dbInitializing true.
C13_Witness ==
  /\ health.status = 200 /\ ~health.dbInitialized /\ health.dbInitializing
  /\ isInitializing /\ hist.lastFailed > 0

\* C14: in server.js a request's load takes a step past its first pass (its
\* DROP TABLE, its CREATE TABLE, a row or the end of its second pass) only
\* while no other request is inside loadCSVData.
C14_ServerOneLoadAtATime ==
  [][\A c \in Requests :
       (/\ pc[c] \in {"dropping", "creating", "inserting"}
        /\ pc[c]' # pc[c] \/ loc[c]' # loc[c])
         => \A d \in Requests \ {c} : ~InLoad(d)]_vars

\* C15: in server.js the engine answers a query or schema request only
\* while no load is between its DROP TABLE and its completion and no insert
\* of a load is still queued.
C15_ServerReadersWait ==
  [][\A q \in Queries :
       (qpc[q] = "running" /\ qpc[q]' = "idle")
         => /\ \A c \in Requests : pc[c] \notin {"creating", "inserting"}
            /\ stmts = <<>>]_vars

\* C16: within one load CREATE TABLE is issued only by the step in which
\* DROP TABLE has completed (the table is gone), the second pass is opened
\* only by the step in which CREATE TABLE has completed (the table exists,
\* empty, with the load's columns), inserts are issued only by the caller
\* in its second pass, and a table that exists when a load issues inserts
\* is the one that load created.
C16_DropCreateInsertOrder ==
  /\ [][\A c \in Callers :
          /\ (pc[c] # "creating" /\ pc[c]' = "creating")
               => pc[c] = "dropping" /\ ~table'.exists
          /\ (pc[c] # "inserting" /\ pc[c]' = "inserting")
               => /\ pc[c] = "creating"
                  /\ table'.exists /\ table'.rows = <<>>
                  /\ table'.cols = ParsedColumns(columnDefs(loc[c].schema))
                  /\ hist'.created = loc[c].load
                  /\ \A i \in 1..Len(stmts) : stmts[i].load # loc[c].load]_vars
  /\ [][Len(stmts') > Len(stmts)
          => LET l == stmts'[Len(stmts')].load
             IN /\ \E c \in Callers : pc[c] = "inserting" /\ loc[c].load = l
                /\ table.exists => hist.created = l]_vars

\* C16 witness: the first load failed, and the second load has passed its
\* DROP TABLE and CREATE TABLE and issued the inserts of its rows.
C16_Witness ==
  /\ hist.lastFailed = 1
  /\ hist.created = 2
  /\ stmts # <<>> /\ stmts[Len(stmts)].load = 2
  /\ table.exists

\* C17: a load that finds no header in the file never issues DROP TABLE or
\* CREATE TABLE; the step in which it fails leaves the table, the queued
\* inserts and isDatabaseInitialized as they are, leaves isInitializing
\* false, and hands the error to the caller that ran the load (HTTP 500
\* for POST /api/init, none for the startup check).
C17_HeaderFailureTouchesNothing ==
  /\ [][\A c \in Callers :
          (pc[c] = "readHeader" /\ pc[c]' # pc[c]
             /\ loc[c].stream.at = "open" /\ Len(loc[c].stream.hdr) = 0)
            => /\ pc[c]' = "done"
               /\ result[c]'.kind = "error"
               /\ result[c]'.err \in {"header", "stream"}]_vars
  /\ [][\A c \in Callers :
          (result[c]' # result[c] /\ result[c]'.err = "header")
            => /\ pc[c] = "readHeader" /\ pc[c]' = "done"
               /\ table' = table /\ stmts' = stmts
               /\ hist'.created = hist.created
               /\ isDatabaseInitialized' = isDatabaseInitialized
               /\ ~isInitializing'
               /\ result[c]'.load = loc[c].load
               /\ result[c]'.status = IF c = Auto THEN 0 ELSE 500]_vars

\* C17 witness: a POST /api/init that waited for the startup load, which
\* failed, ran its own load of the file without a header and was answered
\* 500; the table was never created.
C17_Witness ==
  \E c \in Requests :
    /\ result[c].err = "header" /\ result[c].status = 500
    /\ result[c].waitFrom = 1 /\ result[c].load = 2
    /\ ~isInitializing /\ ~isDatabaseInitialized /\ ~table.exists

\* C18: isDatabaseInitialized and isInitializing are never both true, so
\* the flags are those of NotStarted (false, false), InProgress (false,
\* true) or Ready (true, false).
C18_FlagsNeverBothTrue == ~(isDatabaseInitialized /\ isInitializing)

\* C18 witness: after a failed load and a successful one the state is
\* Ready, and a POST /api/init that arrived then with the file present was
\* answered by the fast path.
C18_Witness ==
  \E c \in Requests :
    /\ isDatabaseInitialized /\ ~isInitializing
    /\ hist.lastFailed > 0 /\ hist.ok.load > hist.lastFailed
    /\ result[c].via = "fast" /\ file.present

\* C19: once isDatabaseInitialized is true it stays true, no load is
\* started (by the startup check, a POST /api/init or a caller that was
\* polling), and no caller is inside the load body, so no DROP TABLE of the
\* loader runs while a request admitted by the gate is in the engine.
C19_ReadyIsAbsorbing ==
  /\ [](isDatabaseInitialized => Loaders = {})
  /\ [][isDatabaseInitialized
          => /\ isDatabaseInitialized'
             /\ hist'.nLoads = hist.nLoads
             /\ \A c \in Callers : ~InLoad(c)']_vars

\* C19 witness: in the Ready state a caller that had been polling is
\* answered the table info while another POST /api/init is on the fast path
\* and a query admitted by the gate is in the engine.
C19_Witness ==
  \E c, d \in Requests, q \in Queries :
    /\ isDatabaseInitialized
    /\ result[c].via = "poll" /\ result[c].kind = "info"
    /\ pc[d] \in {"fastPragma", "fastCount"}
    /\ qpc[q] = "running"

\* C20: every caller that is polling eventually leaves the polling loop
\* (to be answered the table info, or to run its own load).
C20_PollersEventuallyReturn ==
  \A c \in Callers : (pc[c] = "polling") ~> (pc[c] # "polling")

====
